---- MODULE Spec2Model ----
(***************************************************************************)
(* A model of yaque's persistent queue (src/queue.rs): one directory of    *)
(* segment files {N}.q, a Sender appending length-prefixed records through *)
(* an io::BufWriter, a Receiver tailing the current segment and handing    *)
(* out RecvGuards that commit or roll back the read cursor.                *)
(*                                                                         *)
(* Files are sequences of bytes.  The header codec, QueueState, its        *)
(* persistence, FileGuard and TailFollower live in crate::header,          *)
(* crate::state and crate::sync; they are modelled from their              *)
(* specification.  Sizes are scaled down: payloads are 1..MaxLen bytes,    *)
(* the BufWriter holds BUF_CAPACITY bytes (a header and one byte, so that  *)
(* a longer payload exceeds its spare capacity as a payload of more than   *)
(* 8188 bytes does in std) and a segment is rotated at SEGMENT_MAX bytes.  *)
(***************************************************************************)
EXTENDS Integers, Sequences, FiniteSets, TLC

\* ------------------------------------------------------------------ bounds

\* Number of records the sender sends in one behaviour.
MaxSends == 3
\* Longest payload, in bytes.
MaxLen == 2
\* Largest n passed to recv_batch / recv_batch_timeout.
MaxBatch == 2
\* Number of times a sender or receiver process is killed in one behaviour.
MaxCrashes == 1
\* Number of successful Sender::open / Receiver::open calls after channel().
MaxOpens == 2
\* Number of concurrent clear calls.
MaxClears == 2

\* --------------------------------------------------------------- constants

\* Bytes of a record header (crate::header, [u8; 4]).
HEADER_LEN == 4
\* Rotation threshold of QueueState::is_past_end (scaled).
SEGMENT_MAX == 10
\* Capacity of io::BufWriter::new (8 KiB in std; scaled).
BUF_CAPACITY == 5

\* The clear calls.
Clearers == 1..MaxClears

\* Segment indices that can exist: every send may rotate once.
Segments == 0..(MaxSends + 1)

\* A file that does not exist, and the file holding the bytes data.
NoFile == [exists |-> FALSE, data |-> << >>]
File(data) == [exists |-> TRUE, data |-> data]
\* No metadata file.
NoMeta == [exists |-> FALSE, segment |-> 0, position |-> 0]
\* Option::None of a header, and of a guard.
NoHeader == << >>
NoGuard == [active |-> FALSE, kind |-> "none", len |-> 0, items |-> << >>,
            n |-> 0, avail |-> 0, clean |-> TRUE, afterCancel |-> FALSE]

\* ------------------------------------------------------------ header codec

\* Header::new(len).encode(): the length as a little-endian u32.
Encode(len) ==
    << len % 256, (len \div 256) % 256, (len \div 65536) % 256,
       (len \div 16777216) % 256 >>

\* Header::decode(bytes).len(): the little-endian u32.  A length of 2^24
\* or more (the EOF header, bytes of a payload taken for a header) is given
\* as 2^24: it is more than any segment file here ever holds, and keeps the
\* arithmetic within the model checker's integers.
Decode(h) ==
    IF h[4] > 0 THEN 16777216 ELSE h[1] + 256 * h[2] + 65536 * h[3]

\* const HEADER_EOF
HEADER_EOF == << 255, 255, 255, 255 >>

\* The payload of the k-th record sent: len bytes, all equal to k.
Payload(k, len) == [i \in 1..len |-> k]

\* ------------------------------------------------------------- QueueState

\* QueueState::advance_position
AdvancePosition(st, n) == [st EXCEPT !.position = @ + n]

\* QueueState::advance_segment
AdvanceSegment(st) == [segment |-> st.segment + 1, position |-> 0]

\* QueueState::is_past_end
IsPastEnd(st) == st.position >= SEGMENT_MAX

\* -------------------------------------------------------------- BufWriter

\* io::BufWriter::write_all on a buffer holding buf: what stays buffered
\* and the chunks handed to the file, in order.  Data that does not fit the
\* spare capacity first flushes the buffer; data as large as the whole
\* buffer bypasses it.
BufWriteAll(buf, data) ==
    IF Len(data) < BUF_CAPACITY - Len(buf)
    THEN [buf |-> buf \o data, out |-> << >>]
    ELSE LET flushFirst == Len(data) > BUF_CAPACITY - Len(buf)
             b1 == IF flushFirst THEN << >> ELSE buf
             o1 == IF flushFirst /\ buf # << >> THEN << buf >> ELSE << >>
         IN  IF Len(data) >= BUF_CAPACITY
             THEN [buf |-> b1, out |-> Append(o1, data)]
             ELSE [buf |-> b1 \o data, out |-> o1]

\* io::BufWriter::flush: the chunks handed to the file.
BufFlush(buf) == IF buf = << >> THEN << >> ELSE << buf >>

\* --------------------------------------------------------------- variables

VARIABLES
    files,        \* segment index -> the file {N}.q
    meta,         \* the receiver's persisted QueueState, or NoMeta
    sendLock,     \* send.lock is held
    recvLock,     \* recv.lock is held
    sAlive,       \* number of live Sender objects
    sState,       \* Sender::state
    sFile,        \* segment whose file Sender::file appends to
    sBuf,         \* bytes held in the BufWriter
    sPending,     \* chunks of the running send not yet handed to the file
    sWritten,     \* `written` of the running send
    sCall,        \* the Sender call running or last run: its name and item count
    sPc,          \* where the Sender is: idle, write, cap, open
    rAlive,       \* number of live Receiver objects
    rState,       \* Receiver::state
    tailSeg,      \* segment the TailFollower is open on
    tailPos,      \* file offset of the TailFollower
    maybeHeader,  \* Receiver::maybe_header
    unused,       \* Receiver::read_and_unused
    rOp,          \* the receive future in flight
    guard,        \* the outstanding RecvGuard
    sent,         \* history: payloads passed to send, in order
    nFlushed,     \* history: records whose last flush has completed
    committed,    \* history: payloads committed, in order
    prev,         \* history: how the previous receive operation ended
    owed,         \* history: payloads delivered but uncommitted at the last crash
    crashes,      \* history: number of times a process was killed
    lastOpen,     \* history: the last open / try_clear attempt
    opens,        \* history: number of successful opens after channel()
    clearPc       \* where each clear call is: idle, send, recv, remove, done

fsVars == << files, meta, sendLock, recvLock >>
senderVars == << sAlive, sState, sFile, sBuf, sPending, sWritten, sCall, sPc >>
tailVars == << tailSeg, tailPos >>
recvVars == << rAlive, rState, tailSeg, tailPos, maybeHeader, unused, rOp, guard >>
histVars == << sent, nFlushed, committed, prev, owed, crashes, lastOpen, opens,
              clearPc >>
vars == << fsVars, senderVars, recvVars, histVars >>

\* No receive future in flight.  kind, pc, n, togo and nread are the future's
\* own state; clean, avail, afterCancel and meta0 are history: whether the
\* receiver held no buffered element or header when the future was created,
\* how many flushed records were uncommitted then, whether the future was
\* created right after a future created on a clean receiver was cancelled,
\* and the persisted receiver state when the future was created.
NoOp == [kind |-> "none", pc |-> "none", n |-> 0, togo |-> 0, nread |-> 0,
         clean |-> TRUE, avail |-> 0, afterCancel |-> FALSE, meta0 |-> NoMeta]
\* No Sender call made yet.
NoCall == [name |-> "none", n |-> 0]
NoPrev == [tag |-> "none", kind |-> "none", items |-> << >>, clean |-> TRUE,
           stateKept |-> TRUE]
NoOpen == [op |-> "none", sHeld |-> FALSE, rHeld |-> FALSE, sLive |-> FALSE,
           rLive |-> FALSE, sGot |-> FALSE, rGot |-> FALSE, nSent |-> 0]

\* The state after channel(base) on an empty directory: Sender::open has
\* created 0.q and holds send.lock, Receiver::open found no metadata and
\* follows 0.q from offset 0.
Init ==
    /\ files = [s \in Segments |-> IF s = 0 THEN File(<< >>) ELSE NoFile]
    /\ meta = NoMeta
    /\ sendLock = TRUE
    /\ recvLock = TRUE
    /\ sAlive = 1
    /\ sState = [segment |-> 0, position |-> 0]
    /\ sFile = 0
    /\ sBuf = << >>
    /\ sPending = << >>
    /\ sWritten = 0
    /\ sCall = NoCall
    /\ sPc = "idle"
    /\ rAlive = 1
    /\ rState = [segment |-> 0, position |-> 0]
    /\ tailSeg = 0
    /\ tailPos = 0
    /\ maybeHeader = NoHeader
    /\ unused = << >>
    /\ rOp = NoOp
    /\ guard = NoGuard
    /\ sent = << >>
    /\ nFlushed = 0
    /\ committed = << >>
    /\ prev = NoPrev
    /\ owed = << >>
    /\ crashes = 0
    /\ lastOpen = NoOpen
    /\ opens = 0
    /\ clearPc = [c \in Clearers |-> "idle"]

\* ------------------------------------------------------------------ Sender

\* The open truncating the file: OpenOptions with truncate(true).
OpenTruncate(fs, seg) == [fs EXCEPT ![seg] = File(<< >>)]

\* OpenOptions::new().create(true).append(true).open(path)
OpenAppend(fs, seg) == IF fs[seg].exists THEN fs ELSE [fs EXCEPT ![seg] = File(<< >>)]

\* A write of the file handle: the chunk lands at the end of the file.
AppendChunk(fs, seg, chunk) ==
    IF fs[seg].exists THEN [fs EXCEPT ![seg].data = @ \o chunk] ELSE fs

\* Sender::write: header, then payload, through the BufWriter.
SenderWrite(buf, data) ==
    LET w1 == BufWriteAll(buf, Encode(Len(data)))
        w2 == BufWriteAll(w1.buf, data)
    IN  [buf |-> w2.buf, out |-> w1.out \o w2.out, written |-> HEADER_LEN + Len(data)]

\* Sender::send up to and including the hand-over of the first chunk to the
\* flush: write() fills the buffer (and may already push chunks to the file),
\* flush() pushes what is left.  The chunks reach the file one at a time
\* (SenderAppend).
SendBegin(len) ==
    /\ sAlive = 1 /\ sPc = "idle"
    /\ Len(sent) < MaxSends
    /\ LET data == Payload(Len(sent) + 1, len)
           w == SenderWrite(sBuf, data)
       IN  /\ sPending' = w.out \o BufFlush(w.buf)
           /\ sBuf' = << >>
           /\ sWritten' = w.written
           /\ sCall' = [name |-> "send", n |-> 1]
           /\ sent' = Append(sent, data)
    /\ sPc' = "write"
    /\ UNCHANGED << fsVars, sAlive, sState, sFile, recvVars, nFlushed, committed,
                    prev, owed, crashes, lastOpen, opens, clearPc >>

\* The payloads of a batch: one of each length of lens, numbered from k on.
BatchItems(k, lens) == [i \in 1..Len(lens) |-> Payload(k + i - 1, lens[i])]

\* The batches send_batch is called with: 1..MaxBatch items.
BatchLens == UNION {[1..m -> 1..MaxLen] : m \in 1..MaxBatch}

\* The loop of Sender::send_batch: write() on every item in turn; the
\* chunks the BufWriter hands to the file on the way, what it still holds
\* and the sum of the lengths written.
RECURSIVE WriteAll(_, _)
WriteAll(buf, items) ==
    IF items = << >> THEN [buf |-> buf, out |-> << >>, written |-> 0]
    ELSE LET w == SenderWrite(buf, Head(items))
             r == WriteAll(w.buf, Tail(items))
         IN  [buf |-> r.buf, out |-> w.out \o r.out,
              written |-> w.written + r.written]

\* Sender::send_batch up to the hand-over of its first chunk: every item is
\* written through the BufWriter, then flush() pushes what is left.
SendBatchBegin(lens) ==
    /\ sAlive = 1 /\ sPc = "idle"
    /\ Len(sent) + Len(lens) <= MaxSends
    /\ LET items == BatchItems(Len(sent) + 1, lens)
           w == WriteAll(sBuf, items)
       IN  /\ sPending' = w.out \o BufFlush(w.buf)
           /\ sBuf' = << >>
           /\ sWritten' = w.written
           /\ sent' = sent \o items
    /\ sCall' = [name |-> "send_batch", n |-> Len(lens)]
    /\ sPc' = "write"
    /\ UNCHANGED << fsVars, sAlive, sState, sFile, recvVars, nFlushed, committed,
                    prev, owed, crashes, lastOpen, opens, clearPc >>

\* One write of the running send or send_batch reaches the file.  After the
\* last one the flush has returned (every record passed to the call is
\* flushed): advance_position, then the is_past_end test.
SenderAppend ==
    /\ sAlive = 1 /\ sPc = "write" /\ sPending # << >>
    /\ files' = AppendChunk(files, sFile, Head(sPending))
    /\ sPending' = Tail(sPending)
    /\ IF Len(sPending) = 1
       THEN /\ sState' = AdvancePosition(sState, sWritten)
            /\ sPc' = IF IsPastEnd(sState') THEN "cap" ELSE "idle"
            /\ nFlushed' = nFlushed + sCall.n
       ELSE UNCHANGED << sState, sPc, nFlushed >>
    /\ UNCHANGED << meta, sendLock, recvLock, sAlive, sFile, sBuf, sWritten, sCall,
                    recvVars, sent, committed, prev, owed, crashes, lastOpen, opens, clearPc >>

\* Sender::cap_off_and_move, first half: the EOF header is written and
\* flushed, and state.advance_segment() is evaluated for the file name.
SenderCapOff ==
    /\ sAlive = 1 /\ sPc = "cap"
    /\ files' = AppendChunk(files, sFile, HEADER_EOF)
    /\ sState' = AdvanceSegment(sState)
    /\ sPc' = "open"
    /\ UNCHANGED << meta, sendLock, recvLock, sAlive, sFile, sBuf, sPending,
                    sWritten, sCall, recvVars, histVars >>

\* Sender::cap_off_and_move, second half: the next segment is opened
\* (created if absent) and replaces the file inside the BufWriter.
SenderOpenNext ==
    /\ sAlive = 1 /\ sPc = "open"
    /\ files' = OpenAppend(files, sState.segment)
    /\ sFile' = sState.segment
    /\ sPc' = "idle"
    /\ UNCHANGED << meta, sendLock, recvLock, sAlive, sState, sBuf, sPending,
                    sWritten, sCall, recvVars, histVars >>

\* Sender::cap_off_and_move when the open of the next segment fails: the
\* error is returned after state.advance_segment() was evaluated; the
\* BufWriter keeps the file of the segment just capped off.
SenderOpenNextFails ==
    /\ sAlive = 1 /\ sPc = "open"
    /\ sPc' = "idle"
    /\ UNCHANGED << fsVars, sAlive, sState, sFile, sBuf, sPending, sWritten, sCall,
                    recvVars, histVars >>

SenderStep == SenderAppend \/ SenderCapOff \/ SenderOpenNext

\* A failing write with state.position advanced by the bytes that reached
\* the file.
SenderWriteFailsAdvance(k) ==
    /\ sAlive = 1 /\ sPc = "write" /\ sPending # << >>
    /\ k < Len(Head(sPending))
    /\ files' = AppendChunk(files, sFile, SubSeq(Head(sPending), 1, k))
    /\ sBuf' = SubSeq(Head(sPending), k + 1, Len(Head(sPending)))
    /\ sState' = AdvancePosition(sState, k)
    /\ sPending' = << >>
    /\ sWritten' = 0
    /\ sPc' = "idle"
    /\ UNCHANGED << meta, sendLock, recvLock, sAlive, sFile, sCall, recvVars,
                    histVars >>

\* A write of the file inside write() or flush() fails after k bytes of the
\* chunk reached the file: the BufWriter keeps the rest of the chunk (every
\* chunk comes out of its buffer, payloads being shorter than BUF_CAPACITY),
\* and send or send_batch returns the error with `?` before
\* advance_position.
SenderWriteFails(k) ==
    /\ sAlive = 1 /\ sPc = "write" /\ sPending # << >>
    /\ k < Len(Head(sPending))
    /\ files' = AppendChunk(files, sFile, SubSeq(Head(sPending), 1, k))
    /\ sBuf' = SubSeq(Head(sPending), k + 1, Len(Head(sPending)))
    /\ sPending' = << >>
    /\ sWritten' = 0
    /\ sPc' = "idle"
    /\ UNCHANGED << meta, sendLock, recvLock, sAlive, sState, sFile, sCall, recvVars,
                    histVars >>

\* ------------------------------------------------------------ TailFollower

\* TailFollower::open: the file is created empty if it is absent.
TailOpen(fs, seg) == IF fs[seg].exists THEN fs ELSE [fs EXCEPT ![seg] = File(<< >>)]

\* TailFollower::read_exact(n) can complete: n more bytes are in the file.
TailAvail(n) ==
    /\ files[tailSeg].exists
    /\ Len(files[tailSeg].data) >= tailPos + n

\* The n bytes read_exact(n) returns.
TailRead(n) == SubSeq(files[tailSeg].data, tailPos + 1, tailPos + n)

\* TailFollower::seek(SeekFrom::Current(-len)): the new offset; seeking
\* before the start of the file is an error and leaves the offset alone.
SeekBack(pos, len) == IF pos - len < 0 THEN pos ELSE pos - len

\* ---------------------------------------------------------------- Receiver

\* QueueStatePersistence::save
Save(st) == [exists |-> TRUE, segment |-> st.segment, position |-> st.position]

\* remove_file
RemoveFile(fs, seg) == [fs EXCEPT ![seg] = NoFile]

\* Advance without the new TailFollower: the receiver keeps following the
\* segment it has just finished.
AdvanceKeepFollower(st, fs) ==
    LET st2 == AdvanceSegment(st)
    IN  [state |-> st2,
         meta |-> Save(st2),
         tailSeg |-> tailSeg,
         tailPos |-> tailPos + HEADER_LEN,
         files |-> RemoveFile(TailOpen(fs, st2.segment), st2.segment - 1)]

\* Receiver::advance when the save succeeds: the state moves to the next
\* segment and is saved, a new TailFollower is opened on the next segment,
\* the old segment file is removed.
Advance(st, fs) ==
    LET st2 == AdvanceSegment(st)
    IN  [state |-> st2,
         meta |-> Save(st2),
         tailSeg |-> st2.segment,
         tailPos |-> 0,
         files |-> RemoveFile(TailOpen(fs, st2.segment), st2.segment - 1)]

\* The byte count of a guard: sum of 4 + item.len() over its items.
RECURSIVE GuardLen(_)
GuardLen(items) ==
    IF items = << >> THEN 0
    ELSE HEADER_LEN + Len(Head(items)) + GuardLen(Tail(items))

Min(a, b) == IF a < b THEN a ELSE b

\* Receiver::drain(n): up to n elements popped from the front of
\* read_and_unused, and what stays.
Drain(q, n) ==
    LET k == IF n > 0 THEN Min(n, Len(q)) ELSE 0
    IN  [data |-> SubSeq(q, 1, k), rest |-> SubSeq(q, k + 1, Len(q))]

\* RecvGuard { receiver, len, item, override_drop: false }
MkGuard(op, items) ==
    [active |-> TRUE, kind |-> op.kind, len |-> GuardLen(items), items |-> items,
     n |-> op.n, avail |-> op.avail, clean |-> op.clean,
     afterCancel |-> op.afterCancel]

\* read_header's first test: a remembered header skips the header read.
StartPc == IF maybeHeader # NoHeader THEN "body" ELSE "hdr"

\* A fresh receive future.
NewOp(kind, n, togo, pc) ==
    [kind |-> kind, pc |-> pc, n |-> n, togo |-> togo, nread |-> 0,
     clean |-> (unused = << >> /\ maybeHeader = NoHeader),
     avail |-> nFlushed - Len(committed),
     afterCancel |-> (prev.tag = "cancelled" /\ prev.clean),
     meta0 |-> meta]

CanBegin == rAlive = 1 /\ rOp.kind = "none" /\ ~guard.active

\* Receiver::recv and Receiver::recv_timeout up to their first await: a
\* buffered element is handed out at once, otherwise read_one starts.
BeginRecv(kind) ==
    /\ CanBegin
    /\ IF unused # << >>
       THEN /\ guard' = MkGuard(NewOp(kind, 1, 0, "none"), << Head(unused) >>)
            /\ unused' = Tail(unused)
            /\ rOp' = NoOp
       ELSE /\ rOp' = NewOp(kind, 1, 1, StartPc)
            /\ UNCHANGED << guard, unused >>
    /\ UNCHANGED << fsVars, senderVars, rAlive, rState, tailVars, maybeHeader,
                    histVars >>

\* Receiver::recv_batch(n) up to its first await.
BeginRecvBatch(n) ==
    /\ CanBegin
    /\ IF n > Len(unused)
       THEN /\ rOp' = NewOp("recv_batch", n, n - Len(unused), StartPc)
            /\ UNCHANGED << guard, unused >>
       ELSE /\ guard' = MkGuard(NewOp("recv_batch", n, 0, "none"), Drain(unused, n).data)
            /\ unused' = Drain(unused, n).rest
            /\ rOp' = NoOp
    /\ UNCHANGED << fsVars, senderVars, rAlive, rState, tailVars, maybeHeader,
                    histVars >>

\* Receiver::recv_batch_timeout(n, timeout) up to its first await; n_read
\* counts only the elements this call reads from the file.
BeginRecvBatchTimeout(n) ==
    /\ CanBegin
    /\ IF n > Len(unused)
       THEN /\ rOp' = NewOp("recv_batch_timeout", n, n - Len(unused), StartPc)
            /\ UNCHANGED << guard, unused >>
       ELSE /\ guard' = MkGuard(NewOp("recv_batch_timeout", n, 0, "none"),
                                Drain(unused, 0).data)
            /\ unused' = Drain(unused, 0).rest
            /\ rOp' = NoOp
    /\ UNCHANGED << fsVars, senderVars, rAlive, rState, tailVars, maybeHeader,
                    histVars >>

\* Receiver::recv_until up to its first await after predicate(None).
BeginRecvUntil ==
    /\ CanBegin
    /\ rOp' = NewOp("recv_until", 0, 0, IF unused = << >> THEN StartPc ELSE "pred")
    /\ UNCHANGED << fsVars, senderVars, rAlive, rState, tailVars, maybeHeader,
                    unused, guard, histVars >>

\* Receiver::read_header, first read_exact: an EOF header advances the
\* segment and leaves the header to be read again from the next file.
ReadHeader ==
    /\ rAlive = 1 /\ rOp.pc = "hdr"
    /\ TailAvail(HEADER_LEN)
    /\ IF TailRead(HEADER_LEN) = HEADER_EOF
       THEN LET a == Advance(rState, files)
            IN  /\ rState' = a.state
                /\ meta' = a.meta
                /\ tailSeg' = a.tailSeg
                /\ tailPos' = a.tailPos
                /\ files' = a.files
                /\ rOp' = [rOp EXCEPT !.pc = "hdr2"]
                /\ UNCHANGED maybeHeader
       ELSE /\ maybeHeader' = TailRead(HEADER_LEN)
            /\ tailPos' = tailPos + HEADER_LEN
            /\ rOp' = [rOp EXCEPT !.pc = "body"]
            /\ UNCHANGED << rState, meta, tailSeg, files >>
    /\ UNCHANGED << sendLock, recvLock, senderVars, rAlive, unused, guard, histVars >>

\* Receiver::read_header, the read_exact after the advance: whatever is
\* read becomes the header.
ReadHeaderAgain ==
    /\ rAlive = 1 /\ rOp.pc = "hdr2"
    /\ TailAvail(HEADER_LEN)
    /\ maybeHeader' = TailRead(HEADER_LEN)
    /\ tailPos' = tailPos + HEADER_LEN
    /\ rOp' = [rOp EXCEPT !.pc = "body"]
    /\ UNCHANGED << fsVars, senderVars, rAlive, rState, tailSeg, unused, guard,
                    histVars >>

\* AfterReadOne with recv reading the front of read_and_unused without
\* popping it.
AfterReadOneNoPop(op, q) ==
    IF op.kind \in {"recv", "recv_timeout"}
    THEN [op |-> NoOp, unused |-> q, guard |-> MkGuard(op, << Head(q) >>)]
    ELSE [op |-> [op EXCEPT !.pc = "pred"], unused |-> q, guard |-> NoGuard]

\* What the public operation does once read_one has pushed an element and
\* returned, up to its next await or its return: the new future state, the
\* new read_and_unused and the guard it returns.  q is read_and_unused with
\* the element pushed.
AfterReadOne(op, q) ==
    CASE op.kind \in {"recv", "recv_timeout"} ->
            [op |-> NoOp, unused |-> Tail(q), guard |-> MkGuard(op, << Head(q) >>)]
      [] op.kind = "recv_batch" ->
            IF op.togo = 1
            THEN [op |-> NoOp, unused |-> Drain(q, op.n).rest,
                  guard |-> MkGuard(op, Drain(q, op.n).data)]
            ELSE [op |-> [op EXCEPT !.togo = @ - 1, !.pc = "hdr"], unused |-> q,
                  guard |-> NoGuard]
      [] op.kind = "recv_batch_timeout" ->
            IF op.togo = 1
            THEN [op |-> NoOp, unused |-> Drain(q, op.nread + 1).rest,
                  guard |-> MkGuard(op, Drain(q, op.nread + 1).data)]
            ELSE [op |-> [op EXCEPT !.togo = @ - 1, !.nread = @ + 1, !.pc = "hdr"],
                  unused |-> q, guard |-> NoGuard]
      [] OTHER -> [op |-> [op EXCEPT !.pc = "pred"], unused |-> q, guard |-> NoGuard]

\* Receiver::read_one after the header: the payload is read, maybe_header
\* is unset and the payload pushed to read_and_unused; the caller goes on.
ReadBody ==
    /\ rAlive = 1 /\ rOp.pc = "body"
    /\ TailAvail(Decode(maybeHeader))
    /\ LET data == TailRead(Decode(maybeHeader))
           r == AfterReadOne(rOp, Append(unused, data))
       IN  /\ rOp' = r.op
           /\ unused' = r.unused
           /\ guard' = r.guard
    /\ tailPos' = tailPos + Decode(maybeHeader)
    /\ maybeHeader' = NoHeader
    /\ UNCHANGED << fsVars, senderVars, rAlive, rState, tailSeg, histVars >>

\* recv_until draining the triggering element as well.
PredicateStepConsume(stop) ==
    /\ rAlive = 1 /\ rOp.pc = "pred"
    /\ IF stop
       THEN /\ guard' = MkGuard(rOp, Drain(unused, rOp.nread + 1).data)
            /\ unused' = Drain(unused, rOp.nread + 1).rest
            /\ rOp' = NoOp
       ELSE /\ rOp' = [rOp EXCEPT !.nread = @ + 1,
                                  !.pc = IF rOp.nread + 1 = Len(unused)
                                         THEN StartPc ELSE "pred"]
            /\ UNCHANGED << guard, unused >>
    /\ UNCHANGED << fsVars, senderVars, rAlive, rState, tailVars, maybeHeader,
                    histVars >>

\* Receiver::recv_until: predicate(Some(item)) on read_and_unused[n_read]
\* answers stop; false consumes the slot, true ends the loop and drains.
PredicateStep(stop) ==
    /\ rAlive = 1 /\ rOp.pc = "pred"
    /\ IF stop
       THEN /\ guard' = MkGuard(rOp, Drain(unused, rOp.nread).data)
            /\ unused' = Drain(unused, rOp.nread).rest
            /\ rOp' = NoOp
       ELSE /\ rOp' = [rOp EXCEPT !.nread = @ + 1,
                                  !.pc = IF rOp.nread + 1 = Len(unused)
                                         THEN StartPc ELSE "pred"]
            /\ UNCHANGED << guard, unused >>
    /\ UNCHANGED << fsVars, senderVars, rAlive, rState, tailVars, maybeHeader,
                    histVars >>

\* The read_exact the future is suspended in cannot complete.
Blocked ==
    \/ rOp.pc \in {"hdr", "hdr2"} /\ ~TailAvail(HEADER_LEN)
    \/ rOp.pc = "body" /\ ~TailAvail(Decode(maybeHeader))

\* The timeout winning the select with maybe_header unset as well: the
\* header read by the abandoned read_one is forgotten.
TimeoutForgetHeader ==
    /\ rAlive = 1 /\ rOp.kind \in {"recv_timeout", "recv_batch_timeout"}
    /\ Blocked
    /\ maybeHeader' = NoHeader
    /\ prev' = [tag |-> "timeout", kind |-> rOp.kind, items |-> << >>,
                clean |-> rOp.clean, stateKept |-> TRUE]
    /\ rOp' = NoOp
    /\ UNCHANGED << fsVars, senderVars, rAlive, rState, tailVars, unused, guard,
                    sent, nFlushed, committed, owed, crashes, lastOpen, opens, clearPc >>

\* Receiver::read_one_timeout when the timeout wins the select: recv_timeout
\* returns Ok(None), recv_batch_timeout breaks and drains n_read elements.
Timeout ==
    /\ rAlive = 1 /\ rOp.kind \in {"recv_timeout", "recv_batch_timeout"}
    /\ Blocked
    /\ IF rOp.kind = "recv_timeout"
       THEN /\ prev' = [tag |-> "timeout", kind |-> rOp.kind, items |-> << >>,
                        clean |-> rOp.clean, stateKept |-> TRUE]
            /\ UNCHANGED << guard, unused >>
       ELSE /\ guard' = MkGuard(rOp, Drain(unused, rOp.nread).data)
            /\ unused' = Drain(unused, rOp.nread).rest
            /\ UNCHANGED prev
    /\ rOp' = NoOp
    /\ UNCHANGED << fsVars, senderVars, rAlive, rState, tailVars, maybeHeader,
                    sent, nFlushed, committed, owed, crashes, lastOpen, opens, clearPc >>

\* The caller drops the future of a receive operation at a suspension
\* point: a read_exact that is pending, or the predicate's future.
Cancel ==
    /\ rAlive = 1 /\ rOp.kind # "none"
    /\ Blocked \/ rOp.pc = "pred"
    /\ rOp' = NoOp
    /\ prev' = [tag |-> "cancelled", kind |-> rOp.kind, items |-> << >>,
                clean |-> rOp.clean, stateKept |-> TRUE]
    /\ UNCHANGED << fsVars, senderVars, rAlive, rState, tailVars, maybeHeader,
                    unused, guard, sent, nFlushed, committed, owed, crashes, lastOpen, opens, clearPc >>

\* --------------------------------------------------------------- RecvGuard

\* The payloads of owed that are not in items.
Without(owedSeq, items) ==
    SelectSeq(owedSeq, LAMBDA o : \A i \in 1..Len(items) : items[i] # o)

\* RecvGuard::commit (and into_inner): override_drop is set and
\* state.position advanced by len; the drop does nothing.
Commit ==
    /\ rAlive = 1 /\ guard.active
    /\ rState' = AdvancePosition(rState, guard.len)
    /\ guard' = NoGuard
    /\ committed' = committed \o guard.items
    /\ owed' = Without(owed, guard.items)
    /\ UNCHANGED << crashes, opens, clearPc >>
    /\ prev' = [tag |-> "committed", kind |-> guard.kind, items |-> guard.items,
                clean |-> TRUE, stateKept |-> FALSE]
    /\ UNCHANGED << fsVars, senderVars, rAlive, tailVars, maybeHeader, unused,
                    rOp, sent, nFlushed, lastOpen, opens, clearPc >>

\* What the end of an uncommitted guard does to the receiver: the
\* TailFollower seeks back by len.
RollbackSeek(pos, len) == SeekBack(pos, len)

\* impl Drop for RecvGuard with override_drop false: the seek's error is
\* only logged.
DropGuard ==
    /\ rAlive = 1 /\ guard.active
    /\ tailPos' = RollbackSeek(tailPos, guard.len)
    /\ guard' = NoGuard
    /\ UNCHANGED << fsVars, senderVars, rAlive, rState, tailSeg, maybeHeader,
                    unused, rOp, sent, nFlushed, committed, owed, crashes, lastOpen, opens, clearPc >>
    /\ prev' = [tag |-> "dropped", kind |-> guard.kind, items |-> guard.items,
                clean |-> TRUE, stateKept |-> (rState' = rState)]

\* RecvGuard::rollback: the same seek, its error returned to the caller.
Rollback ==
    /\ rAlive = 1 /\ guard.active
    /\ tailPos' = RollbackSeek(tailPos, guard.len)
    /\ guard' = NoGuard
    /\ UNCHANGED << fsVars, senderVars, rAlive, rState, tailSeg, maybeHeader,
                    unused, rOp, sent, nFlushed, committed, owed, crashes, lastOpen, opens, clearPc >>
    /\ prev' = [tag |-> "rolledback", kind |-> guard.kind, items |-> guard.items,
                clean |-> TRUE, stateKept |-> (rState' = rState)]

ReadStep == ReadHeader \/ ReadHeaderAgain \/ ReadBody

\* ------------------------------------------- Receiver::advance, step by step

\* retreat_segment leaving the segment index advanced.
RetreatSegmentNone(st) == st

\* QueueState::retreat_segment: the segment index is decremented back.
RetreatSegment(st) == [st EXCEPT !.segment = @ - 1]

\* advance() removing the old file before it saves the state.
AdvanceEffectRemoveFirst(pc) ==
    CASE pc = "adv1" -> "remove"
      [] pc = "adv2" -> "save"
      [] pc = "adv3" -> "open"
      [] OTHER -> "none"

\* The statements of Receiver::advance that follow advance_segment(), in
\* the order of the code: persistence.save, TailFollower::open, remove_file.
AdvanceEffect(pc) ==
    CASE pc = "adv1" -> "save"
      [] pc = "adv2" -> "open"
      [] pc = "adv3" -> "remove"
      [] OTHER -> "none"

\* Where the receiver is after the statement at pc; after the last one
\* advance returns and read_header reads the header again.
AdvanceNextPc(pc) ==
    CASE pc = "adv1" -> "adv2"
      [] pc = "adv2" -> "adv3"
      [] OTHER -> "hdr2"

\* Receiver::read_header, first read_exact, with advance() taken one
\* statement at a time: on the EOF header advance is entered and
\* state.advance_segment() evaluated.
ReadHeaderEnter ==
    /\ rAlive = 1 /\ rOp.pc = "hdr"
    /\ TailAvail(HEADER_LEN)
    /\ tailPos' = tailPos + HEADER_LEN
    /\ IF TailRead(HEADER_LEN) = HEADER_EOF
       THEN /\ rState' = AdvanceSegment(rState)
            /\ rOp' = [rOp EXCEPT !.pc = "adv1"]
            /\ UNCHANGED maybeHeader
       ELSE /\ maybeHeader' = TailRead(HEADER_LEN)
            /\ rOp' = [rOp EXCEPT !.pc = "body"]
            /\ UNCHANGED rState
    /\ UNCHANGED << fsVars, senderVars, rAlive, tailSeg, unused, guard, histVars >>

\* Receiver::advance: persistence.save(&self.state) succeeds.
AdvanceSave ==
    /\ rAlive = 1 /\ AdvanceEffect(rOp.pc) = "save"
    /\ meta' = Save(rState)
    /\ rOp' = [rOp EXCEPT !.pc = AdvanceNextPc(rOp.pc)]
    /\ UNCHANGED << files, sendLock, recvLock, senderVars, rAlive, rState, tailVars,
                    maybeHeader, unused, guard, histVars >>

\* Receiver::advance: persistence.save fails; retreat_segment, and the
\* error goes up through read_header and read_one to the caller of the
\* receive operation.
AdvanceSaveFails ==
    /\ rAlive = 1 /\ AdvanceEffect(rOp.pc) = "save"
    /\ rState' = RetreatSegment(rState)
    /\ rOp' = NoOp
    /\ prev' = [tag |-> "error", kind |-> rOp.kind, items |-> << >>,
                clean |-> rOp.clean, stateKept |-> FALSE]
    /\ UNCHANGED << fsVars, senderVars, rAlive, tailVars, maybeHeader, unused, guard,
                    sent, nFlushed, committed, owed, crashes, lastOpen, opens, clearPc >>

\* Receiver::advance: TailFollower::open on the new segment.
AdvanceOpen ==
    /\ rAlive = 1 /\ AdvanceEffect(rOp.pc) = "open"
    /\ files' = TailOpen(files, rState.segment)
    /\ tailSeg' = rState.segment
    /\ tailPos' = 0
    /\ rOp' = [rOp EXCEPT !.pc = AdvanceNextPc(rOp.pc)]
    /\ UNCHANGED << meta, sendLock, recvLock, senderVars, rAlive, rState, maybeHeader,
                    unused, guard, histVars >>

\* Receiver::advance: remove_file of the segment left behind.
AdvanceRemove ==
    /\ rAlive = 1 /\ AdvanceEffect(rOp.pc) = "remove"
    /\ files' = RemoveFile(files, rState.segment - 1)
    /\ rOp' = [rOp EXCEPT !.pc = AdvanceNextPc(rOp.pc)]
    /\ UNCHANGED << meta, sendLock, recvLock, senderVars, rAlive, rState, tailVars,
                    maybeHeader, unused, guard, histVars >>

AdvanceStep == AdvanceSave \/ AdvanceOpen \/ AdvanceRemove

ReadStepwise == ReadHeaderEnter \/ AdvanceStep \/ ReadHeaderAgain \/ ReadBody

\* ----------------------------------------------------- open, drop, crash

\* FileGuard::try_lock: Some(guard) unless the lock is held.
TryLock(held) == ~held

\* try_acquire_send_lock with None taken for a guard.
TryAcquireSendLockAlways(held) == "ok"

\* try_acquire_send_lock: FileGuard::try_lock's None becomes the error
\* "sender side already in use".
TryAcquireSendLock(held) == IF TryLock(held) THEN "ok" ELSE "in_use"

\* try_acquire_recv_lock with None taken for a guard.
TryAcquireRecvLockAlways(held) == "ok"

\* try_acquire_recv_lock
TryAcquireRecvLock(held) == IF TryLock(held) THEN "ok" ELSE "in_use"

Max(S) == CHOOSE x \in S : \A y \in S : y <= x
MinOf(S) == CHOOSE x \in S : \A y \in S : x <= y
Existing(fs) == {s \in Segments : fs[s].exists}

\* QueueState::for_send_metadata: the highest segment in the directory (0
\* if there is none) and the length of its file.
ForSendMetadata(fs) ==
    LET seg == IF Existing(fs) = {} THEN 0 ELSE Max(Existing(fs))
    IN  [segment |-> seg, position |-> Len(fs[seg].data)]

\* QueueStatePersistence::open: the saved state, or the start of the lowest
\* segment in the directory (0 if there is none).
PersistenceOpen(m, fs) ==
    IF m.exists THEN [segment |-> m.segment, position |-> m.position]
    ELSE [segment |-> IF Existing(fs) = {} THEN 0 ELSE MinOf(Existing(fs)),
          position |-> 0]

Attempt(op, sGot, rGot) ==
    [op |-> op, sHeld |-> sendLock, rHeld |-> recvLock, sLive |-> sAlive > 0,
     rLive |-> rAlive > 0, sGot |-> sGot, rGot |-> rGot, nSent |-> Len(sent)]

\* Sender::open: the lock is tried; on success the state is derived from
\* the directory and the highest segment opened for appending.
SenderOpen ==
    /\ IF TryAcquireSendLock(sendLock) = "ok"
       THEN /\ opens < MaxOpens
            /\ opens' = opens + 1
            /\ sendLock' = TRUE
            /\ sAlive' = sAlive + 1
            /\ sState' = ForSendMetadata(files)
            /\ files' = OpenAppend(files, sState'.segment)
            /\ sFile' = sState'.segment
            /\ sBuf' = << >>
            /\ sPending' = << >>
            /\ sWritten' = 0
            /\ sCall' = NoCall
            /\ sPc' = "idle"
            /\ lastOpen' = Attempt("Sender::open", TRUE, FALSE)
       ELSE /\ lastOpen' = Attempt("Sender::open", FALSE, FALSE)
            /\ UNCHANGED << files, sendLock, senderVars, opens >>
    /\ UNCHANGED << meta, recvLock, recvVars, sent, nFlushed, committed, prev, owed,
                    crashes, clearPc >>

\* The Sender is dropped and its lock guard is kept locked (leaked).
SenderDropKeepLock ==
    /\ sAlive = 1 /\ sPc = "idle"
    /\ sAlive' = 0
    /\ UNCHANGED << fsVars, sState, sFile, sBuf, sPending, sWritten, sCall, sPc,
                    recvVars, histVars >>

\* The Sender is dropped between two calls: the BufWriter flushes what it
\* holds and the FileGuard releases send.lock.
SenderDrop ==
    /\ sAlive = 1 /\ sPc = "idle"
    /\ files' = IF sBuf = << >> THEN files ELSE AppendChunk(files, sFile, sBuf)
    /\ sendLock' = FALSE
    /\ sAlive' = 0
    /\ sState' = [segment |-> 0, position |-> 0]
    /\ sFile' = 0
    /\ sBuf' = << >>
    /\ UNCHANGED << meta, recvLock, sPending, sWritten, sCall, sPc, recvVars, histVars >>

\* The sender process dies, at any point of a call or between two calls:
\* what the BufWriter holds and what the call had left to write is lost,
\* the advisory lock goes with the process.
SenderCrash ==
    /\ sAlive = 1 /\ crashes < MaxCrashes
    /\ crashes' = crashes + 1
    /\ sendLock' = FALSE
    /\ sAlive' = 0
    /\ sState' = [segment |-> 0, position |-> 0]
    /\ sFile' = 0
    /\ sBuf' = << >>
    /\ sPending' = << >>
    /\ sWritten' = 0
    /\ sCall' = NoCall
    /\ sPc' = "idle"
    /\ UNCHANGED << files, meta, recvLock, recvVars, sent, nFlushed, committed, prev,
                    owed, lastOpen, opens, clearPc >>

\* Receiver::open: the lock is tried; on success the saved state is loaded
\* and a TailFollower put on its segment at its position.  The new Receiver
\* has no previous receive operation.
ReceiverOpen ==
    /\ IF TryAcquireRecvLock(recvLock) = "ok"
       THEN /\ opens < MaxOpens
            /\ opens' = opens + 1
            /\ recvLock' = TRUE
            /\ rAlive' = rAlive + 1
            /\ rState' = PersistenceOpen(meta, files)
            /\ files' = TailOpen(files, rState'.segment)
            /\ tailSeg' = rState'.segment
            /\ tailPos' = rState'.position
            /\ maybeHeader' = NoHeader
            /\ unused' = << >>
            /\ rOp' = NoOp
            /\ guard' = NoGuard
            /\ lastOpen' = Attempt("Receiver::open", FALSE, TRUE)
            /\ prev' = NoPrev
       ELSE /\ lastOpen' = Attempt("Receiver::open", FALSE, FALSE)
            /\ UNCHANGED << files, recvLock, recvVars, opens, prev >>
    /\ UNCHANGED << meta, sendLock, senderVars, sent, nFlushed, committed, owed,
                    crashes, clearPc >>

\* What is left of a Receiver that is gone.
NoReceiver ==
    /\ rAlive' = 0
    /\ rState' = [segment |-> 0, position |-> 0]
    /\ tailSeg' = 0
    /\ tailPos' = 0
    /\ maybeHeader' = NoHeader
    /\ unused' = << >>
    /\ rOp' = NoOp
    /\ guard' = NoGuard

\* impl Drop for Receiver: the state is saved; the FileGuard releases
\* recv.lock.  No future and no guard borrows the Receiver.
ReceiverDrop ==
    /\ rAlive = 1 /\ rOp.kind = "none" /\ ~guard.active
    /\ meta' = Save(rState)
    /\ recvLock' = FALSE
    /\ NoReceiver
    /\ UNCHANGED << files, sendLock, senderVars, histVars >>

\* The receiver process dies: no drop handler runs, nothing is saved, the
\* advisory lock goes with the process.
ReceiverCrash ==
    /\ rAlive = 1 /\ crashes < MaxCrashes
    /\ crashes' = crashes + 1
    /\ recvLock' = FALSE
    /\ NoReceiver
    /\ owed' = IF guard.active THEN guard.items ELSE << >>
    /\ prev' = NoPrev
    /\ UNCHANGED << files, meta, sendLock, senderVars, sent, nFlushed, committed,
                    lastOpen, opens, clearPc >>

\* try_clear: both locks are tried, send.lock first; with both the whole
\* directory is removed; the guards are released on return.
TryClear ==
    /\ IF TryAcquireSendLock(sendLock) # "ok"
       THEN /\ lastOpen' = Attempt("try_clear", FALSE, FALSE)
            /\ UNCHANGED << files, meta >>
       ELSE IF TryAcquireRecvLock(recvLock) # "ok"
       THEN /\ lastOpen' = Attempt("try_clear", TRUE, FALSE)
            /\ UNCHANGED << files, meta >>
       ELSE /\ lastOpen' = Attempt("try_clear", TRUE, TRUE)
            /\ files' = [s \in Segments |-> NoFile]
            /\ meta' = NoMeta
    /\ UNCHANGED << sendLock, recvLock, senderVars, recvVars, sent, nFlushed,
                    committed, prev, owed, crashes, opens, clearPc >>

\* FileGuard::lock resolves: the lock is free and is taken.
LockResolves(held) == ~held

\* acquire_recv_lock resolving although recv.lock is held.
AcquireRecvLockAlways(held) == TRUE

\* acquire_send_lock resolves.
AcquireSendLock(held) == LockResolves(held)

\* acquire_recv_lock resolves.
AcquireRecvLock(held) == LockResolves(held)

\* clear is called and awaits acquire_send_lock.
ClearStart(c) ==
    /\ clearPc[c] = "idle"
    /\ clearPc' = [clearPc EXCEPT ![c] = "send"]
    /\ UNCHANGED << fsVars, senderVars, recvVars, sent, nFlushed, committed, prev,
                    owed, crashes, lastOpen, opens >>

\* clear: acquire_send_lock has resolved; clear awaits acquire_recv_lock.
ClearLockSend(c) ==
    /\ clearPc[c] = "send"
    /\ AcquireSendLock(sendLock)
    /\ sendLock' = TRUE
    /\ clearPc' = [clearPc EXCEPT ![c] = "recv"]
    /\ UNCHANGED << files, meta, recvLock, senderVars, recvVars, sent, nFlushed,
                    committed, prev, owed, crashes, lastOpen, opens >>

\* clear: acquire_recv_lock has resolved.
ClearLockRecv(c) ==
    /\ clearPc[c] = "recv"
    /\ AcquireRecvLock(recvLock)
    /\ recvLock' = TRUE
    /\ clearPc' = [clearPc EXCEPT ![c] = "remove"]
    /\ UNCHANGED << files, meta, sendLock, senderVars, recvVars, sent, nFlushed,
                    committed, prev, owed, crashes, lastOpen, opens >>

\* clear: remove_dir_all, then both guards are dropped on return.
ClearRemove(c) ==
    /\ clearPc[c] = "remove"
    /\ files' = [s \in Segments |-> NoFile]
    /\ meta' = NoMeta
    /\ sendLock' = FALSE
    /\ recvLock' = FALSE
    /\ clearPc' = [clearPc EXCEPT ![c] = "done"]
    /\ UNCHANGED << senderVars, recvVars, sent, nFlushed, committed, prev, owed,
                    crashes, lastOpen, opens >>

ClearStep == \E c \in Clearers : ClearLockSend(c) \/ ClearLockRecv(c) \/ ClearRemove(c)

\* ---------------------------------------------------------- specifications

\* One Sender sending, one Receiver calling recv() and committing each guard
\* (tests::test_enqueue_dequeue_parallel).
NextFifo ==
    \/ \E len \in 1..MaxLen : SendBegin(len)
    \/ SenderStep
    \/ BeginRecv("recv")
    \/ ReadStep
    \/ Commit

SpecFifo == Init /\ [][NextFifo]_vars

\* Every receive operation, cancellation, timeouts, commit and rollback.
Next ==
    \/ \E len \in 1..MaxLen : SendBegin(len)
    \/ SenderStep
    \/ \E kind \in {"recv", "recv_timeout"} : BeginRecv(kind)
    \/ \E n \in 1..MaxBatch : BeginRecvBatch(n)
    \/ \E n \in 1..MaxBatch : BeginRecvBatchTimeout(n)
    \/ BeginRecvUntil
    \/ ReadStep
    \/ \E stop \in BOOLEAN : PredicateStep(stop)
    \/ Timeout
    \/ Cancel
    \/ Commit
    \/ DropGuard
    \/ Rollback

Spec == Init /\ [][Next]_vars

\* Opening, dropping and clearing while the Sender sends.
NextLock ==
    \/ \E len \in 1..MaxLen : SendBegin(len)
    \/ SenderStep
    \/ SenderOpen
    \/ SenderDrop
    \/ ReceiverOpen
    \/ ReceiverDrop
    \/ TryClear

SpecLock == Init /\ [][NextLock]_vars

\* recv and recv_batch with commits, receiver crashes and re-opens.
NextCrash ==
    \/ \E len \in 1..MaxLen : SendBegin(len)
    \/ SenderStep
    \/ BeginRecv("recv")
    \/ \E n \in 1..MaxBatch : BeginRecvBatch(n)
    \/ ReadStep
    \/ Commit
    \/ ReceiverCrash
    \/ ReceiverOpen

SpecCrash == Init /\ [][NextCrash]_vars

\* Every receive operation with cancellation and timeouts, every guard
\* committed.
NextCancel ==
    \/ \E len \in 1..MaxLen : SendBegin(len)
    \/ SenderStep
    \/ \E kind \in {"recv", "recv_timeout"} : BeginRecv(kind)
    \/ \E n \in 1..MaxBatch : BeginRecvBatch(n)
    \/ \E n \in 1..MaxBatch : BeginRecvBatchTimeout(n)
    \/ BeginRecvUntil
    \/ ReadStep
    \/ \E stop \in BOOLEAN : PredicateStep(stop)
    \/ Timeout
    \/ Cancel
    \/ Commit

SpecCancel == Init /\ [][NextCancel]_vars

\* Fair scheduling of the receiver's executor: a read that can complete is
\* eventually polled.
SpecLive == Init /\ [][NextFifo]_vars /\ WF_vars(ReadStep)

\* send and send_batch on one Sender, recv and recv_batch with commits on
\* one Receiver (tests::test_enqueue_dequeue_parallel_with_batches).
NextBatch ==
    \/ \E len \in 1..MaxLen : SendBegin(len)
    \/ \E lens \in BatchLens : SendBatchBegin(lens)
    \/ SenderStep
    \/ BeginRecv("recv")
    \/ \E n \in 1..MaxBatch : BeginRecvBatch(n)
    \/ ReadStep
    \/ Commit

SpecBatch == Init /\ [][NextBatch]_vars

\* recv and recv_timeout with commits while the Sender sends
\* (tests::test_recv_timeout_nothing, tests::test_recv_timeout_dealyed); a
\* read that can complete is eventually polled.
NextTimeout ==
    \/ \E len \in 1..MaxLen : SendBegin(len)
    \/ SenderStep
    \/ \E kind \in {"recv", "recv_timeout"} : BeginRecv(kind)
    \/ ReadStep
    \/ Timeout
    \/ Commit

SpecTimeout == Init /\ [][NextTimeout]_vars /\ WF_vars(ReadStep)

\* Concurrent clear calls while the Sender sends and both sides are dropped
\* and opened again.  Every holder of a side is dropped in the end, a send
\* under way runs to its end and a clear whose lock is free goes on.
NextClear ==
    \/ \E len \in 1..MaxLen : SendBegin(len)
    \/ SenderStep
    \/ SenderOpen
    \/ SenderDrop
    \/ ReceiverOpen
    \/ ReceiverDrop
    \/ \E c \in Clearers : ClearStart(c)
    \/ ClearStep

SpecClear ==
    /\ Init /\ [][NextClear]_vars
    /\ WF_vars(SenderStep) /\ WF_vars(SenderDrop) /\ WF_vars(ReceiverDrop)
    /\ \A c \in Clearers :
          WF_vars(ClearLockSend(c) \/ ClearLockRecv(c) \/ ClearRemove(c))

\* send and send_batch with failures: the open of the next segment fails,
\* the sender process is killed, a Sender is dropped and opened again.
NextSeal ==
    \/ \E len \in 1..MaxLen : SendBegin(len)
    \/ \E lens \in BatchLens : SendBatchBegin(lens)
    \/ SenderStep
    \/ SenderOpenNextFails
    \/ SenderCrash
    \/ SenderDrop
    \/ SenderOpen

SpecSeal == Init /\ [][NextSeal]_vars

\* send on one Sender; recv and recv_batch with commits on a Receiver that
\* is dropped and opened again.
NextRestart ==
    \/ \E len \in 1..MaxLen : SendBegin(len)
    \/ SenderStep
    \/ BeginRecv("recv")
    \/ \E n \in 1..MaxBatch : BeginRecvBatch(n)
    \/ ReadStep
    \/ Commit
    \/ ReceiverDrop
    \/ ReceiverOpen

SpecRestart == Init /\ [][NextRestart]_vars

\* Successive Senders on one directory, each dropped between two sends, a
\* Receiver calling recv() and committing; a read that can complete is
\* eventually polled.
NextReopen ==
    \/ \E len \in 1..MaxLen : SendBegin(len)
    \/ SenderStep
    \/ SenderDrop
    \/ SenderOpen
    \/ BeginRecv("recv")
    \/ ReadStep
    \/ Commit

SpecReopen == Init /\ [][NextReopen]_vars /\ WF_vars(ReadStep)

\* send on one Sender; recv and recv_batch with commits on a Receiver whose
\* advance runs one statement at a time; the save in advance may fail and
\* the receiver process may be killed at any statement, then opened again.
NextAdvance ==
    \/ \E len \in 1..MaxLen : SendBegin(len)
    \/ SenderStep
    \/ BeginRecv("recv")
    \/ \E n \in 1..MaxBatch : BeginRecvBatch(n)
    \/ ReadStepwise
    \/ AdvanceSaveFails
    \/ Commit
    \/ ReceiverCrash
    \/ ReceiverOpen

SpecAdvance == Init /\ [][NextAdvance]_vars

\* The same with fair scheduling: a read or a statement of advance that can
\* run is eventually run, a send under way runs to its end, and a caller
\* that can call recv() does.  The save is not bound to fail.
SpecAdvanceLive ==
    /\ Init /\ [][NextAdvance]_vars
    /\ WF_vars(ReadStepwise) /\ WF_vars(SenderStep) /\ WF_vars(BeginRecv("recv"))

\* send and send_batch on one Sender whose writes to the file may fail,
\* part of the chunk having been written.
NextSendFail ==
    \/ \E len \in 1..MaxLen : SendBegin(len)
    \/ \E lens \in BatchLens : SendBatchBegin(lens)
    \/ SenderStep
    \/ \E k \in 0..(BUF_CAPACITY - 1) : SenderWriteFails(k)

SpecSendFail == Init /\ [][NextSendFail]_vars

\* The failures of the sender side (the open of the next segment fails, the
\* sender process is killed, a Sender is opened again) with a Receiver
\* calling recv() and committing.
NextSealFollow ==
    \/ \E len \in 1..MaxLen : SendBegin(len)
    \/ SenderStep
    \/ SenderOpenNextFails
    \/ SenderCrash
    \/ SenderOpen
    \/ BeginRecv("recv")
    \/ ReadStep
    \/ Commit

SpecSealFollow == Init /\ [][NextSealFollow]_vars

\* ------------------------------------------------------------------ claims

IsPrefix(p, q) == Len(p) <= Len(q) /\ \A i \in 1..Len(p) : p[i] = q[i]

\* C1: FIFO delivery.  With one Sender sending and one Receiver calling
\* recv() and committing each guard, every guard holds the payload that
\* follows the committed ones in send order, and the committed payloads
\* are, byte for byte, a prefix of the payloads sent: no duplicate, no
\* omission, no reordering, also across segment rotations.
C1_FifoDelivery ==
    /\ IsPrefix(committed, sent)
    /\ guard.active =>
          /\ Len(committed) < Len(sent)
          /\ guard.items = << sent[Len(committed) + 1] >>
          /\ guard.len = HEADER_LEN + Len(sent[Len(committed) + 1])

\* C1 witness: every record sent has been delivered and committed, the
\* receiver having followed the sender into a later segment.
C1_Witness ==
    /\ Len(sent) = MaxSends
    /\ committed = sent
    /\ rState.segment >= 1

\* C9: blocking receive resumes.  The delivered sequence is always a prefix
\* of the sequence sent, and a recv() in flight completes with a guard once
\* a record it has not delivered is flushed.
C9_BlockingRecvResumes ==
    /\ [](IsPrefix(committed, sent))
    /\ (rOp.kind = "recv" /\ nFlushed > Len(committed)) ~> guard.active

\* C9 witness: a recv() created when no flushed record was undelivered has
\* returned its guard, after an earlier record was committed.
C9_Witness ==
    /\ guard.active /\ guard.kind = "recv" /\ guard.avail = 0
    /\ Len(committed) >= 1

\* C10: one send is atomic.  The receiver never holds a header whose
\* payload is not yet in the file, and never delivers a record whose send
\* has not flushed.
C10_SendAtomic ==
    /\ rOp.pc = "body" => TailAvail(Decode(maybeHeader))
    /\ guard.active => Len(committed) + Len(guard.items) <= nFlushed

\* C4: crash before commit re-delivers.  A payload that was in an
\* uncommitted guard when the receiver crashed, and has not been committed
\* since, is in every later guard or still ahead of it: no guard of a
\* re-opened Receiver holds a later record instead.
C4_CrashRedelivers ==
    guard.active =>
        \A i \in 1..Len(owed) :
            \/ \E j \in 1..Len(guard.items) : guard.items[j] = owed[i]
            \/ \A j \in 1..Len(guard.items) : guard.items[j][1] < owed[i][1]

\* C6: at most one holder per side.  There is never a second Sender or a
\* second Receiver, and an open attempted while the side's lock is held
\* has returned the error without getting the lock.
C6_AtMostOneHolder ==
    /\ sAlive <= 1
    /\ rAlive <= 1
    /\ (lastOpen.op = "Sender::open" /\ lastOpen.sHeld) => ~lastOpen.sGot
    /\ (lastOpen.op = "Receiver::open" /\ lastOpen.rHeld) => ~lastOpen.rGot

\* C6 witness: a Sender::open was refused while a Sender was alive.
C6_Witness ==
    /\ lastOpen.op = "Sender::open" /\ lastOpen.sHeld /\ ~lastOpen.sGot
    /\ sAlive = 1

\* C7: lock release on drop.  A Sender::open or try_clear attempted when
\* no Sender is alive gets send.lock; a Receiver::open, or a try_clear that
\* got send.lock, attempted when no Receiver is alive gets recv.lock.
C7_LockReleasedOnDrop ==
    /\ (lastOpen.op \in {"Sender::open", "try_clear"} /\ ~lastOpen.sLive)
          => lastOpen.sGot
    /\ (lastOpen.op = "Receiver::open" /\ ~lastOpen.rLive) => lastOpen.rGot
    /\ (lastOpen.op = "try_clear" /\ lastOpen.sGot /\ ~lastOpen.rLive)
          => lastOpen.rGot

\* C7 witness: the Sender of the initial state was dropped and a new
\* Sender opened on the same directory.
C7_Witness ==
    /\ lastOpen.op = "Sender::open" /\ ~lastOpen.sLive /\ lastOpen.sGot
    /\ sAlive = 1

\* The record that follows payload x in send order is y.
Follows(x, y) == \E i \in 1..(Len(sent) - 1) : sent[i] = x /\ sent[i + 1] = y

\* C2: commit-required, single recv.  When the guard of a recv() is
\* dropped without commit the state is left as it was and the very next
\* recv() returns the same payload; after a commit the next recv() returns
\* the payload that follows.
C2_CommitRequired ==
    /\ (prev.kind = "recv" /\ prev.tag = "dropped") => prev.stateKept
    /\ (guard.active /\ guard.kind = "recv" /\ prev.kind = "recv") =>
          /\ prev.tag = "dropped" => guard.items = prev.items
          /\ prev.tag = "committed" => Follows(prev.items[1], guard.items[1])

\* C3: batch rollback.  After the guard of recv_batch, recv_batch_timeout
\* or recv_until was dropped or rolled back, the elements of the following
\* receive operation are those of the rolled-back batch, from its first
\* element on and in the same order.
C3_BatchRollback ==
    (/\ guard.active
     /\ prev.tag \in {"dropped", "rolledback"}
     /\ prev.kind \in {"recv_batch", "recv_batch_timeout", "recv_until"}) =>
        \A i \in 1..Min(Len(guard.items), Len(prev.items)) :
            guard.items[i] = prev.items[i]

\* What a receiver that holds no buffered element delivers: the records
\* that follow the committed ones, one for recv and recv_timeout, n for
\* recv_batch, at most n for recv_batch_timeout and all n of them when n
\* flushed records were undelivered at the call.
DeliversNext(g) ==
    LET c == Len(committed)
        k == Len(g.items)
    IN  /\ c + k <= Len(sent)
        /\ g.items = SubSeq(sent, c + 1, c + k)
        /\ g.kind \in {"recv", "recv_timeout"} => k = 1
        /\ g.kind = "recv_batch" => k = g.n
        /\ g.kind = "recv_batch_timeout" => k <= g.n /\ (g.avail >= g.n => k = g.n)

\* C5: cancel-safety of receive.  A receive operation called right after a
\* future was dropped at a suspension point delivers what it would have
\* delivered had that future never been created.
C5_CancelSafe == (guard.active /\ guard.afterCancel) => DeliversNext(guard)

\* C8: state advances if and only if commit is invoked.  Every step that
\* changes the receiver's state.position is a commit and adds the guard's
\* len to it.
C8_OnlyCommitAdvances ==
    [][rState'.position # rState.position =>
          /\ guard.active /\ ~guard'.active /\ prev'.tag = "committed"
          /\ rState'.position = rState.position + guard.len]_vars

\* C11: send_batch is atomic.  While a send_batch is writing, none of the
\* bytes of its batch is in the segment file: the file ends where it ended
\* before the call, so a receiver sees the batch whole or not at all.
C11_SendBatchAtomic ==
    (sCall.name = "send_batch" /\ sPc = "write") =>
        Len(files[sFile].data) = sState.position

\* C12: recv_batch(n) returns exactly n items.  Every guard of recv_batch(n)
\* holds n payloads, the n records that follow the committed ones in send
\* order, and its len is their byte count (n = 0: no payload, len 0),
\* whatever the receiver went through before recv_batch was called.
C12_RecvBatchExact ==
    (guard.active /\ guard.kind = "recv_batch") =>
        /\ Len(guard.items) = guard.n
        /\ Len(committed) + guard.n <= nFlushed
        /\ guard.items = SubSeq(sent, Len(committed) + 1, Len(committed) + guard.n)
        /\ guard.len = GuardLen(guard.items)
        /\ guard.n = 0 => guard.items = << >> /\ guard.len = 0

\* C13: recv_batch_timeout(n, t) returns what arrived before the timeout.
\* Its guard holds at most n payloads, the records that follow the committed
\* ones in send order; it holds n of them when n flushed records were
\* undelivered at the call, on disk or in read_and_unused, and none when
\* nothing was ever sent.
C13_RecvBatchTimeout ==
    (guard.active /\ guard.kind = "recv_batch_timeout") =>
        LET c == Len(committed)
            k == Len(guard.items)
        IN  /\ k <= guard.n
            /\ c + k <= Len(sent)
            /\ guard.items = SubSeq(sent, c + 1, c + k)
            /\ guard.avail >= guard.n => k = guard.n
            /\ sent = << >> => k = 0

\* C14: recv_timeout.  A recv_timeout in flight returns a guard once a
\* complete undelivered record is in the queue, and its guard holds the
\* first undelivered record; a recv_timeout that returns None changes
\* nothing in the receiver or on disk, and the guard of the receive that
\* follows a None holds the first undelivered record, so after a None on an
\* empty queue the first record sent afterwards.
C14_RecvTimeout ==
    /\ []((guard.active /\ (guard.kind = "recv_timeout" \/ prev.tag = "timeout")) =>
              /\ Len(committed) < Len(sent)
              /\ guard.items = << sent[Len(committed) + 1] >>
              /\ guard.len = HEADER_LEN + Len(sent[Len(committed) + 1]))
    /\ [][(rOp.kind = "recv_timeout" /\ rOp'.kind = "none" /\ ~guard'.active) =>
              /\ prev'.tag = "timeout"
              /\ UNCHANGED << fsVars, rState, tailVars, maybeHeader, unused >>]_vars
    /\ (rOp.kind = "recv_timeout" /\ nFlushed > Len(committed)) ~> guard.active

\* C14 witness: a receive called after recv_timeout returned None on an
\* empty queue, itself called when the queue was empty, has returned its
\* guard; a record was committed before.
C14_Witness ==
    /\ guard.active /\ guard.avail = 0
    /\ prev.tag = "timeout" /\ prev.kind = "recv_timeout"
    /\ Len(committed) >= 1

\* C15: recv_until stops without consuming the triggering element.  When
\* recv_until returns, its guard holds the n_read records the predicate
\* answered false for, which are the records that follow the committed ones
\* in send order; the record the predicate answered true for is not in the
\* guard and is the front of read_and_unused; and once that guard is
\* committed, the first element of the next receive operation's guard is
\* that record.
C15_RecvUntilStops ==
    /\ [][(rOp.kind = "recv_until" /\ guard'.active) =>
              LET c == Len(committed)
                  trigger == unused[rOp.nread + 1]
              IN  /\ guard'.items = SubSeq(sent, c + 1, c + rOp.nread)
                  /\ guard'.len = GuardLen(guard'.items)
                  /\ trigger = sent[c + rOp.nread + 1]
                  /\ \A i \in 1..Len(guard'.items) : guard'.items[i] # trigger
                  /\ unused' # << >> /\ Head(unused') = trigger]_vars
    /\ []((/\ guard.active /\ guard.items # << >>
           /\ prev.tag = "committed" /\ prev.kind = "recv_until") =>
              guard.items[1] = sent[Len(committed) + 1])

\* C15 witness: recv_until returned a guard of one record, the guard was
\* committed, and the next receive operation has returned its guard.
C15_Witness ==
    /\ guard.active /\ guard.items # << >>
    /\ prev.tag = "committed" /\ prev.kind = "recv_until" /\ Len(prev.items) = 1

\* C16: try_clear fails while the queue is in use.  A try_clear called
\* while a Sender or a Receiver is open does not get both locks and leaves
\* every segment file and the metadata as they are; called when neither is
\* open it gets both locks and leaves no file of the directory.
C16_TryClearInUse ==
    /\ [][TryClear =>
              IF sAlive > 0 \/ rAlive > 0
              THEN /\ UNCHANGED << files, meta >>
                   /\ ~(lastOpen'.sGot /\ lastOpen'.rGot)
              ELSE /\ lastOpen'.sGot /\ lastOpen'.rGot
                   /\ \A s \in Segments : ~files'[s].exists
                   /\ ~meta'.exists]_vars
    /\ []((lastOpen.op = "try_clear" /\ (lastOpen.sLive \/ lastOpen.rLive)) =>
              ~(lastOpen.sGot /\ lastOpen.rGot))

\* C16 witness: after records were sent and both sides dropped, try_clear
\* got both locks and the directory is empty.
C16_Witness ==
    /\ lastOpen.op = "try_clear" /\ lastOpen.sGot /\ lastOpen.rGot
    /\ Len(sent) >= 1
    /\ \A s \in Segments : ~files[s].exists

\* C17: clear awaits availability.  A clear that holds a side's lock, and
\* so a clear that removes the directory, runs while no Sender or Receiver
\* holds that side and no other clear holds it; and every clear that was
\* called removes the directory in the end, also with another clear under
\* way.
C17_ClearAwaits ==
    /\ [](\A c \in Clearers :
            /\ clearPc[c] \in {"recv", "remove"} =>
                  /\ sAlive = 0
                  /\ \A d \in Clearers \ {c} : clearPc[d] \notin {"recv", "remove"}
            /\ clearPc[c] = "remove" => rAlive = 0)
    /\ \A c \in Clearers : (clearPc[c] = "send") ~> (clearPc[c] = "done")

\* C17 witness: two clear calls have both removed the directory, after a
\* record was sent.
C17_Witness ==
    /\ \A c \in Clearers : clearPc[c] = "done"
    /\ Len(sent) >= 1

\* The EOF header has been written to segment s: no header of a record and
\* no payload holds the byte 255.
Sealed(s) == files[s].exists /\ \E i \in 1..Len(files[s].data) : files[s].data[i] = 255

\* C18: a sealed segment is never appended to.  No step changes the
\* contents of a segment file that holds the EOF header, whatever the sends,
\* the failures of cap_off_and_move and the restarts of the sender.
C18_SealedNeverAppended ==
    [][\A s \in Segments :
          (Sealed(s) /\ files'[s].exists) => files'[s].data = files[s].data]_vars

\* Where the first k records sent by send() end: the Sender's state after
\* the k-th advance_position, before the is_past_end test.
RECURSIVE EndOfRecord(_)
EndOfRecord(k) ==
    IF k = 0 THEN [segment |-> 0, position |-> 0]
    ELSE LET p == EndOfRecord(k - 1)
             q == IF IsPastEnd(p) THEN AdvanceSegment(p) ELSE p
         IN  AdvancePosition(q, HEADER_LEN + Len(sent[k]))

\* Record k + 1 is the first one read from offset st.position of segment
\* st.segment: the offset is the end of record k, or the start of the next
\* segment when record k was the last one of its segment.
AtRecord(st, k) ==
    \/ st = EndOfRecord(k)
    \/ IsPastEnd(EndOfRecord(k)) /\ st = AdvanceSegment(EndOfRecord(k))

\* C19: receiver restart resumes at the commit point.  A Receiver opened
\* after k records were committed and the Receiver dropped has its state and
\* its TailFollower at the start of record k + 1 while it has read nothing,
\* and its first guard starts with record k + 1.
C19_RestartAtCommitPoint ==
    (/\ rAlive = 1 /\ prev.tag = "none"
     /\ lastOpen.op = "Receiver::open" /\ lastOpen.rGot) =>
        /\ (rOp.kind = "none" /\ ~guard.active) =>
              /\ AtRecord(rState, Len(committed))
              /\ tailSeg = rState.segment /\ tailPos = rState.position
        /\ guard.active =>
              /\ Len(committed) < Len(sent)
              /\ guard.items[1] = sent[Len(committed) + 1]

\* C20: sender restart appends after existing data.  A Sender between two
\* calls, the first one or one opened after a drop, is on the highest
\* segment of the directory at the length of its file; the payloads
\* committed are a prefix of the payloads sent by all Senders, every guard
\* holds the next one, and a recv() in flight returns a guard once a record
\* it has not delivered is flushed: none is lost or overwritten.
C20_SenderRestartAppends ==
    /\ []((sAlive = 1 /\ sPc = "idle") =>
              /\ sState.segment = Max(Existing(files))
              /\ sFile = sState.segment
              /\ sState.position = Len(files[sFile].data))
    /\ [](IsPrefix(committed, sent))
    /\ [](guard.active =>
              /\ Len(committed) < Len(sent)
              /\ guard.items = << sent[Len(committed) + 1] >>)
    /\ (rOp.kind = "recv" /\ nFlushed > Len(committed)) ~> guard.active

\* C20 witness: a Sender opened after records were sent has sent more, and
\* every record of both Senders is committed.
C20_Witness ==
    /\ lastOpen.op = "Sender::open" /\ lastOpen.sGot
    /\ lastOpen.nSent >= 1 /\ Len(sent) > lastOpen.nSent
    /\ committed = sent

\* C21: cancellation does not advance persisted state.  When a receive
\* future is dropped at a suspension point, the persisted receiver state is
\* what it was when the future was created.
C21_CancelKeepsPersisted == [][Cancel => meta' = rOp.meta0]_vars

\* Segment s was removed: its file is absent and a later segment exists
\* (segment files are created in increasing order).
Deleted(s) == ~files[s].exists /\ \E t \in Segments : t > s /\ files[t].exists

\* C22: checkpoint precedes delete in the receiver's segment advance.  A
\* step that removes the file of segment N is taken with (N + 1, 0) already
\* saved and leaves the saved state alone, and the segment named by the
\* saved state is never a removed one, also when the receiver process is
\* killed between two statements of advance.
C22_CheckpointPrecedesDelete ==
    /\ [][\A s \in Segments :
            (files[s].exists /\ ~files'[s].exists) =>
                /\ meta = Save([segment |-> s + 1, position |-> 0])
                /\ meta' = meta]_vars
    /\ [](meta.exists => ~Deleted(meta.segment))

\* C22 witness: the receiver was killed inside advance after the save and
\* before the old segment was removed; the Receiver opened afterwards is on
\* the saved segment and has delivered its first record.
C22_Witness ==
    /\ crashes = 1 /\ meta.exists /\ meta.segment = 1
    /\ files[0].exists /\ Sealed(0)
    /\ rAlive = 1 /\ rState.segment = 1 /\ guard.active

\* C23: receiver advance is atomic on save failure.  The step in which the
\* save of advance fails returns the error to the caller, puts the segment
\* index back to the segment the TailFollower is on, and changes no file,
\* no saved state and not the TailFollower; as long as that error is the
\* last outcome, the receiver's segment is the TailFollower's and its file
\* exists.
C23_AdvanceAtomicOnSaveFailure ==
    /\ [][AdvanceSaveFails =>
            /\ prev'.tag = "error" /\ rOp'.kind = "none" /\ ~guard'.active
            /\ rState'.segment = rState.segment - 1
            /\ rState'.segment = tailSeg
            /\ UNCHANGED << files, meta, tailSeg, tailPos >>]_vars
    /\ [](prev.tag = "error" =>
            /\ rState.segment = tailSeg
            /\ files[tailSeg].exists /\ Sealed(tailSeg))

\* C23 witness: after a record was committed, a receive has returned the
\* error of a failed save; the receiver is on segment 0, whose file is
\* there with its EOF header.
C23_Witness ==
    /\ prev.tag = "error" /\ Len(committed) >= 1
    /\ rState.segment = 0 /\ tailSeg = 0 /\ Sealed(0)

\* C24: the receiver's position is always a record boundary.  Whatever the
\* receive operations, commits, rollbacks and cancellations, state.position
\* is an offset of segment state.segment at which a record sent, or the EOF
\* header, starts or will start.
C24_PositionAtBoundary == \E k \in 0..Len(sent) : AtRecord(rState, k)

\* The bytes data end with the EOF header.
EndsWithEof(data) ==
    /\ Len(data) >= HEADER_LEN
    /\ SubSeq(data, Len(data) - HEADER_LEN + 1, Len(data)) = HEADER_EOF

\* C25: sender rotation at the threshold.  When a send or send_batch
\* returns Ok the position is below SEGMENT_MAX and every lower segment
\* still in the directory ends with the EOF header; when it has rotated, the
\* Sender is on the next segment, whose file exists, at position 0.
C25_SenderRotation ==
    [][((SenderAppend \/ SenderOpenNext) /\ sPc' = "idle") =>
          /\ sState'.position < SEGMENT_MAX
          /\ \A s \in 0..(sState'.segment - 1) :
                files'[s].exists => EndsWithEof(files'[s].data)
          /\ sPc = "open" =>
                /\ sState'.position = 0
                /\ sFile' = sState'.segment
                /\ files'[sFile'].exists]_vars

C27_DeleteAfterSenderMovedOn ==
    /\ [][\A s \in Segments :
            (files[s].exists /\ ~files'[s].exists) =>
                /\ tailSeg = s /\ TailAvail(HEADER_LEN)
                /\ TailRead(HEADER_LEN) = HEADER_EOF
                /\ EndsWithEof(files[s].data)]_vars
    /\ [][SenderAppend => files[sFile].exists]_vars

\* C28: cursor/state agreement.  Whenever no RecvGuard is outstanding,
\* read_and_unused is empty and maybe_header is None, the TailFollower is
\* open on segment state.segment and its offset is state.position.
C28_CursorStateAgreement ==
    (rAlive = 1 /\ ~guard.active /\ unused = << >> /\ maybeHeader = NoHeader) =>
        /\ tailSeg = rState.segment
        /\ tailPos = rState.position

\* C29: sender position/file agreement.  When a send or send_batch returns
\* Ok, state.position is the length of the file of segment state.segment,
\* also after an earlier call on the same Sender returned an error.
C29_PositionIsFileLength ==
    [][((SenderAppend \/ SenderOpenNext) /\ sPc' = "idle") =>
          /\ files'[sState'.segment].exists
          /\ sState'.position = Len(files'[sState'.segment].data)]_vars

\* C30: recovery after a failed advance.  Once a receive has returned the
\* error of a failed save, a recv() called afterwards returns a guard when
\* a record that was not delivered is flushed: the receiver does not stay
\* blocked on the sealed segment.
C30_RecoversAfterFailedAdvance ==
    (prev.tag = "error" /\ rOp.kind = "recv" /\ nFlushed > Len(committed))
        ~> (guard.active \/ rAlive = 0)
====
